---------------------------- MODULE Spec2Model ----------------------------
(***************************************************************************)
(* A model of packages/navi/src/Resolver.ts: the Resolver's memoization    *)
(* table, the promise continuations of listenForChanges and the listener   *)
(* registry.                                                               *)
(*                                                                         *)
(* JavaScript is single threaded: every action below is one synchronous    *)
(* run (a public method call, or one promise continuation).  The fan-out   *)
(* loop of listenForChanges calls listeners, which may call back into the  *)
(* Resolver; it is therefore split at each listener call, and no other     *)
(* action runs while a pass is active.  Listeners are taken to return      *)
(* normally.                                                               *)
(***************************************************************************)
EXTENDS Integers, Sequences, FiniteSets, TLC

\* The number of ids the model lets resolve allocate.
MaxId == 2

Envs == {"e1", "e2"}
Resolvables == {"r1", "r2"}
Listeners == {"l1", "l2"}
Ids == 1..MaxId

-----------------------------------------------------------------------------
(* JavaScript values, named by tags, with the tests the code applies.      *)

\* What a resolvable may return.
Thenable == "Promise"
PlainValues == {"undefined", "{default:x}"}
ReturnValues == PlainValues \cup {Thenable}
\* What the resolvable's promise may fulfil with, and reject with.
FulfilValues == {"null", "{default:x}"}
\* The same with an object that has no `default` and a string.
FulfilShapes == FulfilValues \cup {"{}", "v"}
RejectValues == {"Error", "undefined"}
\* Two NotFoundError objects a promise may reject with: the first is built
\* without a pathname, the second with one.
NotFoundErrors == {"NotFoundError#1", "NotFoundError#2"}
PresetPathname == "/preset"
\* The object `new Error()` builds.
GenericError == "new Error()"
\* A field the object literal does not set.
Absent == "<absent>"

Truthy(x) == x \notin {"undefined", "null"}

TypeOf(x) ==
  IF x \in {"null", "{default:x}", "{}", Thenable, "Error", GenericError}
          \cup NotFoundErrors
  THEN "object"
  ELSE IF x = "undefined" THEN "undefined"
  ELSE "string"

\* The properties a value answers to (`x['then']`, `'default' in x`).
Keys(x) ==
  IF x = Thenable THEN {"then"}
  ELSE IF x = "{default:x}" THEN {"default"}
  ELSE {}

Get(x, key) == IF x = "{default:x}" /\ key = "default" THEN "x" ELSE "undefined"

isPromiseLike(x) == Truthy(x) /\ "then" \in Keys(x)

hasDefault(value) ==
  Truthy(value) /\ TypeOf(value) = "object" /\ "default" \in Keys(value)

\* Faulty variant: the value is passed on as it came.
extractDefaultKept(value) == value

extractDefault(value) ==
  IF hasDefault(value) THEN Get(value, "default") ELSE value

Status == [Ready |-> "ready", Busy |-> "busy", Error |-> "error"]
Statuses == {Status.Ready, Status.Busy, Status.Error}

\* Faulty variant: the two tests in the other order, Busy wins over Error.
reduceStatusesBusyFirst(x, y) ==
  IF x = Status.Busy \/ y = Status.Busy THEN Status.Busy
  ELSE IF x = Status.Error \/ y = Status.Error THEN Status.Error
  ELSE Status.Ready

reduceStatuses(x, y) ==
  IF x = Status.Error \/ y = Status.Error THEN Status.Error
  ELSE IF x = Status.Busy \/ y = Status.Busy THEN Status.Busy
  ELSE Status.Ready

-----------------------------------------------------------------------------
VARIABLES
  nextId,       \* this.nextId
  results,      \* this.results: env -> (resolvable -> address of a Resolution)
  listenerIds,  \* this.listenerIds, in insertion order: <<listener, ids>>
  objects,      \* the Resolution objects built so far; an address is an index
  attempts,     \* id -> the promise built for it and where its continuations are
  pass,         \* the fan-out loop in progress, if any
  calls,        \* history: how often each resolvable ran, per environment
  threw,        \* history: some call of resolve ended by an exception
  held,         \* history: the objects resolve returned before their promise settled
  passes,       \* history: id -> the fan-out passes begun for it
  unlistened,   \* history: listener -> "no", or unlisten was called and no
                \* listen since: "during" the pass in progress, or "before"
  passLog,      \* history: the last pass (the registry when it began, the
                \* listeners it called, the call that first changed the
                \* registry), kept until the next operation
  pathname,     \* the pathname field of each NotFoundError object
  reduction     \* the statuses a caller folds with reduceStatuses, and the
                \* results of the fold

vars == <<nextId, results, listenerIds, objects, attempts, pass,
          calls, threw, held, passes, unlistened, passLog, pathname,
          reduction>>

EmptyMap == [x \in {} |-> x]
NoPass == [id |-> 0, snapshot |-> <<>>, i |-> 0]
NoLog == [id |-> 0, registry |-> <<>>, invoked |-> <<>>,
          changedAt |-> 0, done |-> FALSE, atUpdate |-> {}]

\* Map.prototype.set and Map.prototype.delete on a map keyed by identity.
MapSet(map, key, value) == (key :> value) @@ map
MapDelete(map, key) == [k \in DOMAIN map \ {key} |-> map[k]]

NoReduction == [operands |-> <<>>, done |-> FALSE]

\* The Resolver after its constructor.
Constructed ==
  /\ nextId = 1
  /\ results = EmptyMap
  /\ listenerIds = <<>>
  /\ objects = <<>>
  /\ attempts = EmptyMap
  /\ pass = NoPass
  /\ calls = [e \in Envs |-> [r \in Resolvables |-> 0]]
  /\ threw = FALSE
  /\ held = {}
  /\ passes = [k \in Ids |-> 0]
  /\ unlistened = [l \in Listeners |-> "no"]
  /\ passLog = NoLog
  /\ pathname = [error \in NotFoundErrors |->
                   IF error = "NotFoundError#2" THEN PresetPathname
                   ELSE "undefined"]

Init == Constructed /\ reduction = NoReduction

Idle == pass.id = 0

-----------------------------------------------------------------------------
(* listen and unlisten.  this.listenerIds is a Map: set on a key it holds  *)
(* keeps the key's place, set on a new key appends, delete removes.        *)

Position(registry, listener) ==
  IF \E k \in 1..Len(registry) : registry[k][1] = listener
  THEN CHOOSE k \in 1..Len(registry) : registry[k][1] = listener
  ELSE 0

\* Faulty variant: every call makes a registration of its own.
listenAppends(registry, listener, resolutionIds) ==
  Append(registry, <<listener, resolutionIds>>)

listen(registry, listener, resolutionIds) ==
  IF Position(registry, listener) # 0
  THEN [registry EXCEPT ![Position(registry, listener)] =
          <<listener, resolutionIds>>]
  ELSE Append(registry, <<listener, resolutionIds>>)

\* Faulty variant: the delete is lost.
unlistenKeeps(registry, listener) == registry

unlisten(registry, listener) ==
  SelectSeq(registry, LAMBDA entry : entry[1] # listener)

\* The subscription lists callers pass to listen: one of the first two ids.
SubLists == {<<1>>, <<2>>}

Listen(listener, resolutionIds) ==
  /\ Idle
  /\ listenerIds' = listen(listenerIds, listener, resolutionIds)
  /\ unlistened' = [unlistened EXCEPT ![listener] = "no"]
  /\ passLog' = NoLog
  /\ UNCHANGED <<pathname, reduction>>
  /\ UNCHANGED <<nextId, results, objects, attempts, pass, calls, threw,
                 held, passes>>

Unlisten(listener) ==
  /\ Idle
  /\ listenerIds' = unlisten(listenerIds, listener)
  /\ unlistened' = [unlistened EXCEPT ![listener] = "before"]
  /\ passLog' = NoLog
  /\ UNCHANGED <<pathname, reduction>>
  /\ UNCHANGED <<nextId, results, objects, attempts, pass, calls, threw,
                 held, passes>>

-----------------------------------------------------------------------------
(* resolve                                                                 *)

Table(env) == IF env \in DOMAIN results THEN results[env] ELSE EmptyMap

\* Faulty variant: a record in error does not count, it is resolved again.
CachedUnlessError(matcherResults, resolvable) ==
  /\ resolvable \in DOMAIN matcherResults
  /\ objects[matcherResults[resolvable]].status # Status.Error

\* `let currentResult = matcherResults.get(resolvable); if (currentResult)`
Cached(matcherResults, resolvable) == resolvable \in DOMAIN matcherResults

\* Faulty variant: `let id = this.nextId`, the counter is not advanced.
IncrementedNot(n) == n

\* `let id = this.nextId++`: the counter after the allocation.
Incremented(n) == n + 1

\* Faulty variant: the value field is unwrapped, the promise is not.
ReadyResultUnwrapped(id, maybeValue) ==
  [id |-> id, status |-> Status.Ready, value |-> extractDefault(maybeValue),
   error |-> Absent, promise |-> id]

ReadyResult(id, maybeValue) ==
  [id |-> id, status |-> Status.Ready, value |-> maybeValue,
   error |-> Absent, promise |-> id]

BusyResult(id) ==
  [id |-> id, status |-> Status.Busy, value |-> Absent,
   error |-> Absent, promise |-> id]

\* The promise `Promise.resolve()` makes: fulfilled, with no value.  The
\* promises of records are named by the record's id, this one by 0.
ResolvedEmpty == 0

\* Faulty variant: the table is not looked at.
DataPromiseEmpty(matcherResults, dataResolvable) == ResolvedEmpty

\* `!dataResolvable ? { promise: Promise.resolve() }
\*    : (matcherResults.get(dataResolvable) || { promise: Promise.resolve() })`
\* and then `.promise`.
DataPromise(matcherResults, dataResolvable) ==
  IF ~Truthy(dataResolvable) THEN ResolvedEmpty
  ELSE IF dataResolvable \in DOMAIN matcherResults
  THEN objects[matcherResults[dataResolvable]].promise
  ELSE ResolvedEmpty

\* A cache hit: the record in the table is returned as it is.
ResolveHit(env, resolvable) ==
  /\ Idle
  /\ Cached(Table(env), resolvable)
  /\ LET currentResult == results[env][resolvable] IN
       held' = IF attempts[objects[currentResult].id].state = "pending"
               THEN held \cup {currentResult}
               ELSE held
  /\ passLog' = NoLog
  /\ UNCHANGED <<pathname, reduction>>
  /\ UNCHANGED <<nextId, results, listenerIds, objects, attempts, pass,
                 calls, threw, passes, unlistened>>

\* A cache miss whose resolvable fails while it runs: the exception leaves
\* resolve after the table was created and the id was taken.
ResolveThrow(env, resolvable) ==
  /\ Idle
  /\ ~Cached(Table(env), resolvable)
  /\ nextId <= MaxId
  /\ nextId' = Incremented(nextId)
  /\ results' = MapSet(results, env, Table(env))
  /\ calls' = [calls EXCEPT ![env][resolvable] = @ + 1]
  /\ threw' = TRUE
  /\ passLog' = NoLog
  /\ UNCHANGED <<pathname, reduction>>
  /\ UNCHANGED <<listenerIds, objects, attempts, pass, held, passes,
                 unlistened>>

\* A cache miss whose resolvable returns maybeValue.
ResolveMiss(env, resolvable, dataResolvable, maybeValue) ==
  /\ Idle
  /\ ~Cached(Table(env), resolvable)
  /\ nextId <= MaxId
  /\ LET matcherResults == Table(env)
         id == nextId
         address == Len(objects) + 1
     IN
       /\ nextId' = Incremented(nextId)
       /\ calls' = [calls EXCEPT ![env][resolvable] = @ + 1]
       /\ results' =
            MapSet(results, env, MapSet(matcherResults, resolvable, address))
       /\ IF ~isPromiseLike(maybeValue)
          THEN /\ objects' = Append(objects, ReadyResult(id, maybeValue))
               /\ attempts' = MapSet(attempts, id,
                    [env |-> env, resolvable |-> resolvable,
                     state |-> "fulfilled", raw |-> maybeValue,
                     value |-> maybeValue, stage |-> "none",
                     current |-> FALSE, subscribed |-> {},
                     data |-> dataResolvable,
                     handed |-> DataPromise(matcherResults, dataResolvable)])
               /\ held' = held
          ELSE /\ objects' = Append(objects, BusyResult(id))
               /\ attempts' = MapSet(attempts, id,
                    [env |-> env, resolvable |-> resolvable,
                     state |-> "pending", raw |-> Absent,
                     value |-> Absent, stage |-> "waiting",
                     current |-> FALSE, subscribed |-> {},
                     data |-> dataResolvable,
                     handed |-> DataPromise(matcherResults, dataResolvable)])
               /\ held' = held \cup {address}
  /\ passLog' = NoLog
  /\ UNCHANGED <<pathname, reduction>>
  /\ UNCHANGED <<listenerIds, pass, threw, passes, unlistened>>

Resolve(env, resolvable, dataResolvable) ==
  \/ ResolveHit(env, resolvable)
  \/ ResolveThrow(env, resolvable)
  \/ \E maybeValue \in ReturnValues :
       ResolveMiss(env, resolvable, dataResolvable, maybeValue)

-----------------------------------------------------------------------------
(* The promise `maybeValue.then(extractDefault)` settles: the resolvable's  *)
(* promise fulfilled with rawValue and extractDefault ran, or it rejected   *)
(* and the rejection passed through.                                        *)

Fulfil(id, rawValue) ==
  /\ Idle
  /\ id \in DOMAIN attempts
  /\ attempts[id].state = "pending"
  /\ attempts' = [attempts EXCEPT ![id].state = "fulfilled",
                                  ![id].raw = rawValue,
                                  ![id].value = extractDefault(rawValue)]
  /\ passLog' = NoLog
  /\ UNCHANGED <<pathname, reduction>>
  /\ UNCHANGED <<nextId, results, listenerIds, objects, pass, calls, threw,
                 held, passes, unlistened>>

Reject(id, error) ==
  /\ Idle
  /\ id \in DOMAIN attempts
  /\ attempts[id].state = "pending"
  /\ attempts' = [attempts EXCEPT ![id].state = "rejected",
                                  ![id].raw = error,
                                  ![id].value = error]
  /\ passLog' = NoLog
  /\ UNCHANGED <<pathname, reduction>>
  /\ UNCHANGED <<nextId, results, listenerIds, objects, pass, calls, threw,
                 held, passes, unlistened>>

-----------------------------------------------------------------------------
(* listenForChanges: the first continuation, which updates the table.      *)

\* Faulty variant: `currentResult` alone, the ids are not compared.
GuardWithoutId(matcherResults, resolvable, id) ==
  resolvable \in DOMAIN matcherResults

\* Faulty variant: `currentResult.id !== id`.
GuardInverted(matcherResults, resolvable, id) ==
  /\ resolvable \in DOMAIN matcherResults
  /\ objects[matcherResults[resolvable]].id # id

\* `currentResult && currentResult.id === id`
Guard(matcherResults, resolvable, id) ==
  /\ resolvable \in DOMAIN matcherResults
  /\ objects[matcherResults[resolvable]].id = id

\* Faulty variant: `error` alone.
ErrorKept(error) == error

\* `error || new Error()`
ErrorOrDefault(error) == IF Truthy(error) THEN error ELSE GenericError

SettledResult(currentResult, state, value) ==
  IF state = "fulfilled"
  THEN [id |-> currentResult.id, status |-> Status.Ready, value |-> value,
        error |-> Absent, promise |-> currentResult.promise]
  ELSE [id |-> currentResult.id, status |-> Status.Error, value |-> Absent,
        error |-> ErrorOrDefault(value), promise |-> currentResult.promise]

\* Faulty variant: the record in the table is overwritten in place.
StoreInPlace(heap, address, result) ==
  [objects |-> [heap EXCEPT ![address] = result], address |-> address]

\* Faulty variant: the set is lost, the handler still answers true.
StoreLost(heap, address, result) == [objects |-> heap, address |-> address]

\* `matcherResults.set(resolvable, {...})`: the object literal is a new
\* object, and the table entry is pointed at it.
Store(heap, address, result) ==
  [objects |-> Append(heap, result), address |-> Len(heap) + 1]

\* The environment's two path fields, and the path joinPaths makes of them.
EnvFields ==
  [e1 |-> [pathname |-> "/a", unmatchedPathnamePart |-> "b"],
   e2 |-> [pathname |-> "/c", unmatchedPathnamePart |-> "d"]]
joinPaths(base, part) == base \o "/" \o part
\* `joinPaths(env.pathname, env.unmatchedPathnamePart)`
FullPathname(env) ==
  joinPaths(EnvFields[env].pathname, EnvFields[env].unmatchedPathnamePart)

\* Faulty variant: the test `!error.pathname` is missing.
AnnotatedAlways(paths, error, fullPathname, current) ==
  IF error \in NotFoundErrors
  THEN [paths EXCEPT ![error] = fullPathname]
  ELSE paths

\* Faulty variant: the assignment stands inside the guard.
AnnotatedIfCurrent(paths, error, fullPathname, current) ==
  IF current /\ error \in NotFoundErrors /\ ~Truthy(paths[error])
  THEN [paths EXCEPT ![error] = fullPathname]
  ELSE paths

\* `if (error instanceof NotFoundError && !error.pathname)
\*    error.pathname = fullPathname`.  The statement stands before the guard
\* and does not read `current`, the guard's outcome.
Annotated(paths, error, fullPathname, current) ==
  IF error \in NotFoundErrors /\ ~Truthy(paths[error])
  THEN [paths EXCEPT ![error] = fullPathname]
  ELSE paths

\* History, kept for the listeners in `watched`: those whose list names id.
SubscribedTo(registry, id) ==
  {registry[k][1] : k \in {j \in 1..Len(registry) :
                             \E n \in 1..Len(registry[j][2]) :
                               registry[j][2][n] = id}}

Complete(id, watched) ==
  /\ Idle
  /\ id \in DOMAIN attempts
  /\ attempts[id].stage = "waiting"
  /\ attempts[id].state # "pending"
  /\ LET attempt == attempts[id]
         matcherResults == results[attempt.env]
         resolvable == attempt.resolvable
         isCurrent == \E r \in DOMAIN results[attempt.env] :
                        /\ r = attempt.resolvable
                        /\ objects[results[attempt.env][r]].id = id
     IN
       IF Guard(matcherResults, resolvable, id)
       THEN LET address == matcherResults[resolvable]
                stored == Store(objects, address,
                                SettledResult(objects[address], attempt.state,
                                              attempt.value))
            IN
              /\ objects' = stored.objects
              /\ results' = MapSet(results, attempt.env,
                              MapSet(matcherResults, resolvable,
                                     stored.address))
              /\ attempts' = [attempts EXCEPT
                                ![id].stage = "updated",
                                ![id].current = isCurrent,
                                ![id].subscribed =
                                   SubscribedTo(listenerIds, id)
                                     \cap watched]
       ELSE /\ attempts' = [attempts EXCEPT ![id].stage = "stale",
                                            ![id].current = isCurrent]
            /\ UNCHANGED <<objects, results>>
  /\ pathname' =
       IF attempts[id].state = "rejected"
       THEN Annotated(pathname, attempts[id].value,
                      FullPathname(attempts[id].env),
                      Guard(results[attempts[id].env],
                            attempts[id].resolvable, id))
       ELSE pathname
  /\ passLog' = NoLog
  /\ UNCHANGED reduction
  /\ UNCHANGED <<nextId, listenerIds, pass, calls, threw, held, passes,
                 unlistened>>

-----------------------------------------------------------------------------
(* listenForChanges: the second continuation, the fan-out.                 *)

\* Array.prototype.indexOf
indexOf(ids, id) ==
  IF \E k \in 1..Len(ids) : ids[k] = id
  THEN (CHOOSE k \in 1..Len(ids) :
          ids[k] = id /\ \A j \in 1..(k - 1) : ids[j] # id) - 1
  ELSE -1

\* Faulty variant: `if (ids.indexOf(id))`, the index taken as the answer.
MatchesTruthy(ids, id) == indexOf(ids, id) # 0

Matches(ids, id) == indexOf(ids, id) # -1

\* Faulty variant: the loop walks the registry itself.
PassEntriesLive(snapshot, registry) == registry

\* The array the loop walks: `Array.from(this.listenerIds.entries())`,
\* taken when the pass begins.
PassEntries(snapshot, registry) == snapshot

\* The first index from `from` on whose entry the loop calls, 0 if none.
NextMatch(entries, id, from) ==
  IF \E k \in from..Len(entries) : Matches(entries[k][2], id)
  THEN CHOOSE k \in from..Len(entries) :
         /\ Matches(entries[k][2], id)
         /\ \A j \in from..(k - 1) : ~Matches(entries[j][2], id)
  ELSE 0

\* What a listener does when it is called.
ListenerOps(listeners, lists) ==
  {[op |-> "return", listener |-> "-", ids |-> <<>>]}
    \cup {[op |-> "listen", listener |-> l, ids |-> s] :
            l \in listeners, s \in lists}
    \cup {[op |-> "unlisten", listener |-> l, ids |-> <<>>] : l \in listeners}

AfterOp(registry, do) ==
  IF do.op = "listen" THEN listen(registry, do.listener, do.ids)
  ELSE IF do.op = "unlisten" THEN unlisten(registry, do.listener)
  ELSE registry

EndOfPass(marks) == [l \in Listeners |->
                       IF marks[l] = "during" THEN "before" ELSE marks[l]]

\* Faulty variant: the fan-out looks at the table again and is dropped if
\* the entry is no longer the attempt's.
FanOutIfCurrent(didUpdate, stillCurrent) == didUpdate /\ stillCurrent

\* `if (didUpdate)`: the answer of the first continuation decides alone,
\* the table is not read.
FanOut(didUpdate, stillCurrent) == didUpdate

Notify(id) ==
  /\ Idle
  /\ id \in DOMAIN attempts
  /\ attempts[id].stage \in {"updated", "stale"}
  /\ LET didUpdate == attempts[id].stage = "updated"
         stillCurrent == Guard(Table(attempts[id].env),
                               attempts[id].resolvable, id)
         first == NextMatch(PassEntries(listenerIds, listenerIds), id, 1)
     IN
       IF FanOut(didUpdate, stillCurrent)
       THEN /\ passes' = [passes EXCEPT ![id] = @ + 1]
            /\ IF first = 0
               THEN /\ pass' = NoPass
                    /\ attempts' = [attempts EXCEPT ![id].stage = "done",
                                                    ![id].subscribed = {}]
                    /\ passLog' = [id |-> id, registry |-> listenerIds,
                                   invoked |-> <<>>, changedAt |-> 0,
                                   done |-> TRUE,
                                   atUpdate |-> attempts[id].subscribed]
               ELSE /\ pass' = [id |-> id, snapshot |-> listenerIds,
                                i |-> first]
                    /\ attempts' = [attempts EXCEPT ![id].subscribed = {}]
                    /\ passLog' = [id |-> id, registry |-> listenerIds,
                                   invoked |-> <<>>, changedAt |-> 0,
                                   done |-> FALSE,
                                   atUpdate |-> attempts[id].subscribed]
       ELSE /\ attempts' = [attempts EXCEPT ![id].stage = "done",
                                            ![id].subscribed = {}]
            /\ passLog' = NoLog
            /\ UNCHANGED <<pass, passes>>
  /\ UNCHANGED <<pathname, reduction>>
  /\ UNCHANGED <<nextId, results, listenerIds, objects, calls, threw, held,
                 unlistened>>

\* One turn of the loop that calls a listener, and the turns after it that
\* call nobody.
ListenerCall(do) ==
  /\ ~Idle
  /\ LET entries == PassEntries(pass.snapshot, listenerIds)
         listener == entries[pass.i][1]
         registry == AfterOp(listenerIds, do)
         next == NextMatch(PassEntries(pass.snapshot, registry), pass.id,
                           pass.i + 1)
         marks == IF do.op = "listen"
                  THEN [unlistened EXCEPT ![do.listener] = "no"]
                  ELSE IF do.op = "unlisten"
                  THEN [unlistened EXCEPT ![do.listener] = "during"]
                  ELSE unlistened
     IN
       /\ listenerIds' = registry
       /\ passLog' = [passLog EXCEPT
                        !.invoked = Append(@, listener),
                        !.changedAt =
                           IF @ = 0 /\ registry # listenerIds
                           THEN Len(passLog.invoked) + 1 ELSE @,
                        !.done = next = 0]
       /\ IF next = 0
          THEN /\ pass' = NoPass
               /\ attempts' = [attempts EXCEPT ![pass.id].stage = "done"]
               /\ unlistened' = EndOfPass(marks)
          ELSE /\ pass' = [pass EXCEPT !.i = next]
               /\ attempts' = attempts
               /\ unlistened' = marks
  /\ UNCHANGED <<pathname, reduction>>
  /\ UNCHANGED <<nextId, results, objects, calls, threw, held, passes>>

-----------------------------------------------------------------------------
(* The environment of the Resolver: a collaborator that holds the table of *)
(* an environment drops the entry of a resolvable.                         *)

Invalidate(env, resolvable) ==
  /\ Idle
  /\ resolvable \in DOMAIN Table(env)
  /\ results' = MapSet(results, env, MapDelete(results[env], resolvable))
  /\ passLog' = NoLog
  /\ UNCHANGED <<pathname, reduction>>
  /\ UNCHANGED <<nextId, listenerIds, objects, attempts, pass, calls, threw,
                 held, passes, unlistened>>

-----------------------------------------------------------------------------
(* reduceStatuses, applied by a caller that folds the statuses of several  *)
(* resolutions into one.                                                   *)

\* The longest list of statuses a caller folds.
MaxOperands == 4

Reverse(seq) == [k \in 1..Len(seq) |-> seq[Len(seq) + 1 - k]]

\* statuses.reduce(reduceStatuses) and statuses.reduceRight(reduceStatuses)
RECURSIVE ReduceLeft(_)
ReduceLeft(statuses) ==
  IF Len(statuses) = 1 THEN statuses[1]
  ELSE reduceStatuses(ReduceLeft(SubSeq(statuses, 1, Len(statuses) - 1)),
                      statuses[Len(statuses)])

RECURSIVE ReduceRight(_)
ReduceRight(statuses) ==
  IF Len(statuses) = 1 THEN statuses[1]
  ELSE reduceStatuses(statuses[1], ReduceRight(Tail(statuses)))

OperandLists ==
  UNION {[1..n -> Statuses] : n \in 2..MaxOperands}

InitStatus ==
  /\ Constructed
  /\ reduction \in {[operands |-> s, done |-> FALSE] : s \in OperandLists}

Reduce ==
  /\ ~reduction.done
  /\ reduction.operands # <<>>
  /\ reduction' = [operands |-> reduction.operands,
                   done |-> TRUE,
                   left |-> ReduceLeft(reduction.operands),
                   right |-> ReduceRight(reduction.operands),
                   swapped |-> ReduceLeft(Reverse(reduction.operands))]
  /\ UNCHANGED <<nextId, results, listenerIds, objects, attempts, pass,
                 calls, threw, held, passes, unlistened, passLog, pathname>>

NextStatus == Reduce

SpecStatus == InitStatus /\ [][NextStatus]_vars

-----------------------------------------------------------------------------
\* The operations of the Resolver, with their inputs drawn from the given
\* (environment, resolvable) pairs and listeners.
Run(in) ==
  \/ \E l \in in.listeners, s \in in.lists : Listen(l, s)
  \/ \E l \in in.listeners : Unlisten(l)
  \/ \E p \in in.pairs, d \in in.data : Resolve(p[1], p[2], d)
  \/ \E id \in Ids, v \in in.fulfils : Fulfil(id, v)
  \/ \E id \in Ids, x \in in.rejects : Reject(id, x)
  \/ \E id \in Ids : Complete(id, in.watched)
  \/ \E id \in Ids : Notify(id)
  \/ \E do \in ListenerOps(in.listeners, in.lists) : ListenerCall(do)

Step(pairs, listeners) ==
  Run([pairs |-> pairs, listeners |-> listeners, lists |-> SubLists,
       fulfils |-> FulfilValues, rejects |-> RejectValues,
       data |-> {"undefined"}, watched |-> {}])

Next == Step({<<"e1", "r1">>, <<"e1", "r2">>}, {"l1"})

Spec == Init /\ [][Next]_vars

NextFanOut == Step({<<"e1", "r1">>, <<"e2", "r1">>}, Listeners)

SpecFanOut == Init /\ [][NextFanOut]_vars

NextExt ==
  \/ Step({<<"e1", "r1">>, <<"e2", "r1">>}, {"l1"})
  \/ \E p \in {<<"e1", "r1">>} : Invalidate(p[1], p[2])

SpecExt == Init /\ [][NextExt]_vars

\* Promises that reject with NotFoundError objects, in two environments.
NextPath ==
  \/ Run([pairs |-> {<<"e1", "r1">>, <<"e2", "r1">>}, listeners |-> {"l1"},
          lists |-> {<<1>>}, fulfils |-> {"null"},
          rejects |-> NotFoundErrors \cup {"Error"},
          data |-> {"undefined"}, watched |-> {}])
  \/ \E p \in {<<"e1", "r1">>} : Invalidate(p[1], p[2])

SpecPath == Init /\ [][NextPath]_vars

\* Promises that fulfil with values of every shape extractDefault tells
\* apart.
NextShapes ==
  Run([pairs |-> {<<"e1", "r1">>, <<"e1", "r2">>}, listeners |-> {"l1"},
       lists |-> {<<1>>}, fulfils |-> FulfilShapes, rejects |-> {"Error"},
       data |-> {"undefined"}, watched |-> {}])

SpecShapes == Init /\ [][NextShapes]_vars

\* resolve called with a dataResolvable, or without one.
NextData ==
  Run([pairs |-> {<<"e1", "r1">>, <<"e1", "r2">>}, listeners |-> {"l1"},
       lists |-> {<<1>>}, fulfils |-> {"null"}, rejects |-> {"Error"},
       data |-> Resolvables \cup {"undefined"}, watched |-> {}])

SpecData == Init /\ [][NextData]_vars

\* Two listeners, and a subscription list that names an id twice.
NextOrder ==
  Run([pairs |-> {<<"e1", "r1">>}, listeners |-> Listeners,
       lists |-> SubLists \cup {<<1, 1>>}, fulfils |-> {"null"},
       rejects |-> {"Error"}, data |-> {"undefined"}, watched |-> {}])

SpecOrder == Init /\ [][NextOrder]_vars

\* One pair and one listener, with the environment's collaborator, and the
\* history of who was subscribed when a record was stored.
NextWindow ==
  \/ Run([pairs |-> {<<"e1", "r1">>}, listeners |-> {"l1"},
          lists |-> SubLists, fulfils |-> {"null"}, rejects |-> {"Error"},
          data |-> {"undefined"}, watched |-> {"l1"}])
  \/ \E p \in {<<"e1", "r1">>} : Invalidate(p[1], p[2])

SpecWindow == Init /\ [][NextWindow]_vars

\* One pair that is resolved, invalidated and resolved again, with the
\* continuations scheduled fairly: a continuation of a settled promise is a
\* job in the microtask queue, which the event loop runs, and the loop of a
\* pass goes on to its end once it has begun.  Nothing obliges callers to
\* call, promises to settle or the collaborator to invalidate.
LiveInputs ==
  [pairs |-> {<<"e1", "r1">>}, listeners |-> Listeners, lists |-> {<<1>>},
   fulfils |-> {"null"}, rejects |-> {"Error"}, data |-> {"undefined"},
   watched |-> {}]

NextLive ==
  \/ Run(LiveInputs)
  \/ \E p \in {<<"e1", "r1">>} : Invalidate(p[1], p[2])

Fairness ==
  /\ \A id \in Ids : WF_vars(Complete(id, LiveInputs.watched))
  /\ \A id \in Ids : WF_vars(Notify(id))
  /\ WF_vars(\E do \in ListenerOps(LiveInputs.listeners, LiveInputs.lists) :
               ListenerCall(do))

SpecLive == Init /\ [][NextLive]_vars /\ Fairness

-----------------------------------------------------------------------------
(* Properties.                                                             *)

Addresses == 1..Len(objects)
RangeOf(seq) == {seq[k] : k \in 1..Len(seq)}
PairOf(address) ==
  <<attempts[objects[address].id].env,
    attempts[objects[address].id].resolvable>>
\* The table holds, for the attempt's pair, a record with the attempt's id.
IsCurrent(id) ==
  LET table == Table(attempts[id].env) IN
    /\ attempts[id].resolvable \in DOMAIN table
    /\ objects[table[attempts[id].resolvable]].id = id
\* The listener the step just taken called, if it called one.
Called(listener) ==
  /\ passLog'.id # 0
  /\ passLog'.id = passLog.id
  /\ Len(passLog'.invoked) = Len(passLog.invoked) + 1
  /\ passLog'.invoked[Len(passLog'.invoked)] = listener
\* The listeners the registry subscribes to id, in the registry's order.
Subscribers(registry, id) ==
  LET chosen == SelectSeq(registry, LAMBDA entry : id \in RangeOf(entry[2]))
  IN [k \in 1..Len(chosen) |-> chosen[k][1]]
TimesCalled(listener) ==
  Cardinality({k \in 1..Len(passLog.invoked) : passLog.invoked[k] = listener})

\* C1: for every (environment, resolvable) pair the resolvable is invoked at
\* most once, whatever resolve calls, settlements and listen/unlisten calls
\* are interleaved, and all resolve calls made before the promise settles
\* return the identical Resolution object.
C1_InvokedOnce ==
  /\ \A e \in Envs, r \in Resolvables : calls[e][r] <= 1
  /\ \A a \in held, b \in held : PairOf(a) = PairOf(b) => a = b

\* C2: when the table entry of an attempt's pair is gone, or holds a record
\* with another id, at the time the attempt's promise completes (fulfilled or
\* rejected), the completion leaves the table as it is and no fan-out pass
\* is ever run for the attempt's id.
C2_StalenessGuard ==
  [][\A id \in DOMAIN attempts :
       /\ (/\ attempts[id].stage = "waiting"
           /\ attempts'[id].stage # "waiting"
           /\ ~IsCurrent(id))
          => /\ results' = results
             /\ objects' = objects
             /\ attempts'[id].stage = "stale"
       /\ attempts'[id].stage \in {"stale", "done"} /\ ~attempts'[id].current
          => passes'[id] = 0 /\ pass'.id # id]_vars

C2_Witness ==
  \E id \in DOMAIN attempts :
    /\ attempts[id].stage = "done"
    /\ ~attempts[id].current
    /\ attempts[id].resolvable \in DOMAIN Table(attempts[id].env)
    /\ objects[Table(attempts[id].env)[attempts[id].resolvable]].id # id
    /\ \E k \in 1..Len(listenerIds) : id \in RangeOf(listenerIds[k][2])

\* C3: no call of resolve ends by an exception, whatever the resolvable does.
C3_NeverThrows == threw = FALSE

\* C4 as stated: once the promise of an attempt has fulfilled and its
\* completion passed the guard, the object resolve returned while the
\* attempt was Busy shows status Ready and the unwrapped value.
C4_SameObjectSettles ==
  \A a \in held :
    LET attempt == attempts[objects[a].id] IN
      attempt.state = "fulfilled" /\ attempt.stage \in {"updated", "done"}
        => /\ objects[a].status = Status.Ready
           /\ objects[a].value = attempt.value

\* C4 as amended: once the promise of an attempt has fulfilled and its
\* completion passed the guard, the table holds another object, with the
\* same id, status Ready and the unwrapped value; the object resolve
\* returned while the attempt was Busy is left as it was built.
C4_EntryReplaced ==
  \A a \in held :
    LET id == objects[a].id
        attempt == attempts[id]
    IN
      attempt.state = "fulfilled" /\ attempt.stage \in {"updated", "done"}
        => /\ objects[a] = BusyResult(id)
           /\ LET b == results[attempt.env][attempt.resolvable] IN
                /\ b # a
                /\ objects[b].id = id
                /\ objects[b].status = Status.Ready
                /\ objects[b].value = extractDefault(attempt.raw)

C4_Witness ==
  \E a \in held :
    /\ attempts[objects[a].id].stage = "done"
    /\ attempts[objects[a].id].raw = "{default:x}"
    /\ objects[results[PairOf(a)[1]][PairOf(a)[2]]].value = "x"

C6_NoCallAfterUnlisten ==
  [][\A l \in Listeners : unlistened[l] # "no" => ~Called(l)]_vars

\* C6 as amended: once unlisten(l) was called, no fan-out pass that begins
\* afterwards calls l until a later listen(l, ...); a pass in progress when
\* unlisten(l) is called from inside a listener may still call l.
C6_NoCallInLaterPass ==
  [][\A l \in Listeners : unlistened[l] = "before" => ~Called(l)]_vars

C6_Witness ==
  /\ passLog.done
  /\ Len(passLog.invoked) >= 1
  /\ \E l \in Listeners :
       /\ unlistened[l] = "before"
       /\ \A k \in 1..Len(passLog.registry) : passLog.registry[k][1] # l
       /\ l \notin RangeOf(passLog.invoked)

\* C7: the listeners a fan-out pass calls, and their order, are those the
\* registry subscribed to the id when the pass began, whatever listen and
\* unlisten calls the listeners make during the pass.
C7_Snapshot ==
  passLog.id # 0 =>
    LET expected == Subscribers(passLog.registry, passLog.id) IN
      /\ Len(passLog.invoked) <= Len(expected)
      /\ \A k \in 1..Len(passLog.invoked) : passLog.invoked[k] = expected[k]
      /\ passLog.done <=> (pass.id = 0 /\ Len(passLog.invoked) = Len(expected))

C7_Witness ==
  /\ passLog.done
  /\ passLog.changedAt # 0
  /\ passLog.changedAt < Len(passLog.invoked)
  /\ Subscribers(listenerIds, passLog.id) # passLog.invoked

\* C8 as stated: the promise of every Resolution settles as the record
\* says: a Ready record's promise fulfils with the record's value, an Error
\* record's promise rejects with the record's error.
C8_SameOutcome ==
  \A a \in Addresses :
    LET promise == attempts[objects[a].promise] IN
      /\ objects[a].status = Status.Ready
           => promise.state = "fulfilled" /\ promise.value = objects[a].value
      /\ objects[a].status = Status.Error
           => promise.state = "rejected" /\ promise.value = objects[a].error

\* C8 as amended: a Ready record's promise fulfils with the record's value;
\* an Error record's promise rejects, with the record's error when the
\* rejection value is truthy; when it is falsy the record carries a generic
\* Error object instead of the rejection value.
C8_SameOutcomeUnlessFalsy ==
  \A a \in Addresses :
    LET promise == attempts[objects[a].promise] IN
      /\ objects[a].status = Status.Ready
           => promise.state = "fulfilled" /\ promise.value = objects[a].value
      /\ objects[a].status = Status.Error
           => /\ promise.state = "rejected"
              /\ Truthy(promise.value) => objects[a].error = promise.value
              /\ ~Truthy(promise.value)
                   => /\ objects[a].error = GenericError
                      /\ objects[a].error # promise.value

C8_Witness ==
  /\ \E a \in Addresses :
       /\ objects[a].status = Status.Error
       /\ objects[a].error = GenericError
       /\ attempts[objects[a].promise].value = "undefined"
  /\ \E a \in Addresses :
       /\ objects[a].status = Status.Ready
       /\ attempts[objects[a].promise].stage = "done"
       /\ objects[a].value = "x"

\* C9: every record in a table is well formed: Busy with neither value nor
\* error, Ready with a value and no error, Error with a truthy error and no
\* value.
C9_WellFormed ==
  \A e \in DOMAIN results : \A r \in DOMAIN results[e] :
    LET record == objects[results[e][r]] IN
      /\ record.status \in {Status.Busy, Status.Ready, Status.Error}
      /\ record.status = Status.Busy
           => record.value = Absent /\ record.error = Absent
      /\ record.status = Status.Ready
           => record.value # Absent /\ record.error = Absent
      /\ record.status = Status.Error
           => /\ record.error # Absent
              /\ Truthy(record.error)
              /\ record.value = Absent

C9_Witness ==
  \E e \in DOMAIN results : \E r \in DOMAIN results[e] :
    /\ objects[results[e][r]].status = Status.Error
    /\ objects[results[e][r]].error = GenericError
    /\ attempts[objects[results[e][r]].id].value = "undefined"

\* The record at address a was built by resolve, not by a completion.
BuiltByResolve(heap, progress, a) ==
  heap[a].status = Status.Busy \/ progress[heap[a].id].stage = "none"

\* C10: the counter only grows; the record a resolve builds carries an id
\* that is at least the counter before the call and above the id of every
\* record built before, so no two records built by resolve share an id; and
\* the record that takes the place of a Busy record in a table is Ready or
\* Error and carries the Busy record's id.
C10_Ids ==
  [][/\ nextId' >= nextId
     /\ \A a \in (Len(objects) + 1)..Len(objects') :
          /\ objects'[a].id < nextId'
          /\ BuiltByResolve(objects', attempts', a)
               => /\ objects'[a].id >= nextId
                  /\ \A b \in 1..Len(objects) :
                       objects[b].id < objects'[a].id
     /\ \A e \in DOMAIN results : \A r \in DOMAIN results[e] :
          (/\ r \in DOMAIN results'[e]
           /\ results'[e][r] # results[e][r]
           /\ objects[results[e][r]].status = Status.Busy)
            => /\ objects'[results'[e][r]].id = objects[results[e][r]].id
               /\ objects'[results'[e][r]].status
                    \in {Status.Ready, Status.Error}]_vars

C10_Witness ==
  /\ nextId = 3
  /\ \E e \in DOMAIN results, f \in DOMAIN results :
       /\ e # f
       /\ \E r \in DOMAIN results[e], q \in DOMAIN results[f] :
            /\ objects[results[e][r]].id = 2
            /\ objects[results[e][r]].status = Status.Error
            /\ results[e][r] = 3
            /\ objects[results[f][q]].id = 1


\* What section 4.1 of the specification gives for two operands.
Combined(x, y) ==
  CASE x = Status.Error \/ y = Status.Error -> Status.Error
    [] x # Status.Error /\ y # Status.Error
         /\ (x = Status.Busy \/ y = Status.Busy) -> Status.Busy
    [] x = Status.Ready /\ y = Status.Ready -> Status.Ready

\* C11: reduceStatuses(x, y) is Error if either operand is Error, else Busy
\* if either is Busy, else Ready, for all nine pairs; it is commutative
\* (the operands swapped give the same result) and associative (three
\* operands, and four, grouped from the left and from the right give the
\* same result).
C11_StatusAlgebra ==
  reduction.done =>
    LET s == reduction.operands IN
      /\ Len(s) = 2 => /\ reduction.left = Combined(s[1], s[2])
                       /\ reduction.swapped = reduction.left
      /\ Len(s) = 3 =>
           /\ reduction.left = reduceStatuses(reduceStatuses(s[1], s[2]), s[3])
           /\ reduction.right = reduceStatuses(s[1], reduceStatuses(s[2], s[3]))
      /\ reduction.left = reduction.right
      /\ reduction.swapped = reduction.left

C11_Witness ==
  /\ reduction.done
  /\ reduction.operands = <<Status.Busy, Status.Ready, Status.Error>>
  /\ reduction.left = Status.Error


TableOf(tables, env) == IF env \in DOMAIN tables THEN tables[env] ELSE EmptyMap
Settled(id) == {a \in Addresses : objects[a].id = id
                                   /\ objects[a].status # Status.Busy}

\* C12: once the table entry of a pair is Ready or Error, no operation
\* changes its status, value, error or id, and the resolvable is not run
\* again (an Error entry is not retried); the completion of an attempt is
\* applied at most once: no step settles an id whose completion has run,
\* and no id has two settled records.
C12_SettledIsFinal ==
  [][/\ \A e \in Envs, r \in Resolvables :
          (r \in DOMAIN Table(e) /\ objects[Table(e)[r]].status # Status.Busy)
            => /\ r \in DOMAIN TableOf(results', e)
               /\ objects'[results'[e][r]] = objects[results[e][r]]
               /\ calls'[e][r] = calls[e][r]
     /\ \A id \in DOMAIN attempts :
          attempts[id].stage # "waiting"
            => \A a \in (Len(objects) + 1)..Len(objects') : objects'[a].id # id
     /\ \A id \in Ids : Cardinality(Settled(id)') <= 1]_vars

C12_Witness ==
  \E r \in Resolvables :
    /\ r \in DOMAIN Table("e1")
    /\ objects[Table("e1")[r]].status = Status.Error
    /\ attempts[objects[Table("e1")[r]].id].stage = "done"
    /\ Cardinality(Settled(objects[Table("e1")[r]].id)) = 1
    /\ calls["e1"][r] = 1
    /\ nextId = MaxId + 1


\* The first continuation of attempt id runs in this step.
Completes(id) ==
  /\ id \in DOMAIN attempts
  /\ attempts[id].stage = "waiting"
  /\ attempts'[id].stage # "waiting"

\* The matched prefix joined with the unmatched remainder.
JoinedPath == [e1 |-> "/a/b", e2 |-> "/c/d"]

\* C13: when the rejection of an attempt with a NotFoundError is handled,
\* the error's pathname becomes the joined path of the attempt's environment
\* if it was not set and stays what it was if it was set; nothing else
\* writes a pathname, so an error rejected by several attempts keeps the
\* path of the rejection handled first.
C13_PathOnce ==
  [][/\ \A id \in Ids :
          (Completes(id) /\ attempts[id].state = "rejected"
                        /\ attempts[id].value \in NotFoundErrors)
            => LET error == attempts[id].value IN
                 pathname'[error] =
                   IF pathname[error] = "undefined"
                   THEN JoinedPath[attempts[id].env]
                   ELSE pathname[error]
     /\ \A error \in NotFoundErrors :
          pathname[error] # "undefined" => pathname'[error] = pathname[error]
     /\ \A error \in NotFoundErrors :
          pathname'[error] # pathname[error]
            => \E id \in Ids : /\ Completes(id)
                               /\ attempts[id].state = "rejected"
                               /\ attempts[id].value = error]_vars

\* Both attempts rejected with the same unannotated error; the second
\* attempt's rejection was handled first and its path stayed, and the
\* error built with a pathname kept it.
C13_Witness ==
  /\ DOMAIN attempts = {1, 2}
  /\ \A id \in {1, 2} : /\ attempts[id].value = "NotFoundError#1"
                         /\ attempts[id].stage = "done"
  /\ attempts[1].env = "e1" /\ attempts[2].env = "e2"
  /\ pathname["NotFoundError#1"] = "/c/d"
  /\ pathname["NotFoundError#2"] = PresetPathname


\* The unwrapped form of a produced value: the `default` property of an
\* object that has one, anything else as it is.
Unwrapped(produced) == IF produced = "{default:x}" THEN "x" ELSE produced

ReadyRecords == {a \in Addresses : objects[a].status = Status.Ready}

\* C14 as stated: the value of every Ready record is the unwrapped form of
\* what the resolvable produced.
C14_AlwaysUnwrapped ==
  \A a \in ReadyRecords :
    objects[a].value = Unwrapped(attempts[objects[a].id].raw)

\* C14: the value of a Ready record that a completion stored is the
\* unwrapped form of what the resolvable's promise fulfilled with; the value
\* of a Ready record that resolve built from a returned value is that value
\* as it was returned, an object with a `default` property included.
C14_UnwrappedWhenAsync ==
  \A a \in ReadyRecords :
    LET attempt == attempts[objects[a].id] IN
      objects[a].value = IF attempt.stage = "none" THEN attempt.raw
                         ELSE Unwrapped(attempt.raw)

C14_Witness ==
  /\ DOMAIN attempts = {1, 2}
  /\ attempts[1].raw = "{default:x}" /\ attempts[1].stage = "done"
  /\ attempts[2].raw = "{default:x}" /\ attempts[2].stage = "none"
  /\ \E a, b \in ReadyRecords :
       /\ objects[a].id = 1 /\ objects[a].value = "x"
       /\ objects[b].id = 2 /\ objects[b].value = "{default:x}"


\* C15: on a cache miss with dataResolvable d, the resolvable is handed the
\* promise of d's record if d has a record in the environment's table when
\* resolve is called, and a fulfilled empty promise if it has none (or if
\* no d is given); d is not run by the call and no entry is made for d.
C15_DataPromise ==
  [][\A id \in DOMAIN attempts' \ DOMAIN attempts :
       LET attempt == attempts'[id]
           d == attempt.data
           table == Table(attempt.env)
       IN
         /\ attempt.handed = IF d \in DOMAIN table
                             THEN objects[table[d]].promise
                             ELSE ResolvedEmpty
         /\ (d \in Resolvables /\ d # attempt.resolvable)
              => /\ \A e \in Envs : calls'[e][d] = calls[e][d]
                 /\ d \in DOMAIN TableOf(results', attempt.env)
                      <=> d \in DOMAIN table]_vars

\* r1 was resolved with r2 as its dataResolvable before r2 had a record,
\* and was handed the empty promise; r2 was then resolved with r1 as its
\* dataResolvable, and was handed the promise of r1's record.
C15_Witness ==
  /\ DOMAIN attempts = {1, 2}
  /\ attempts[1].resolvable = "r1" /\ attempts[1].data = "r2"
  /\ attempts[1].handed = ResolvedEmpty
  /\ attempts[2].resolvable = "r2" /\ attempts[2].data = "r1"
  /\ attempts[2].handed = objects[Table("e1")["r1"]].promise
  /\ attempts[2].handed # ResolvedEmpty
  /\ calls["e1"]["r1"] = 1 /\ calls["e1"]["r2"] = 1


\* The listeners of a registry, in its order.
Registered(registry) == [k \in 1..Len(registry) |-> registry[k][1]]
Without(names, listener) == SelectSeq(names, LAMBDA l : l # listener)

\* C16: the registry holds a listener at most once and in the order of
\* registration: a step that changes it keeps every listener's place
\* (listen on a registered listener only replaces its list), or puts a
\* listener that was not registered at the end, or takes one listener out;
\* the listeners a pass calls are called in the order the registry had when
\* the pass began, and none is called twice, however often the id occurs
\* in its list.
C16_InsertionOrder ==
  [][/\ \A j, k \in 1..Len(listenerIds') :
          listenerIds'[j][1] = listenerIds'[k][1] => j = k
     /\ LET old == Registered(listenerIds)
            new == Registered(listenerIds')
        IN \/ new = old
           \/ \E l \in Listeners \ RangeOf(old) : new = Append(old, l)
           \/ \E l \in RangeOf(old) : new = Without(old, l)
     /\ passLog'.id # 0 =>
          \A j, k \in 1..Len(passLog'.invoked) :
            j < k => Position(passLog'.registry, passLog'.invoked[j])
                       < Position(passLog'.registry, passLog'.invoked[k])]_vars

\* A pass for id 1 over l2 (registered first, with the id twice in its
\* list) and l1 called l2 and then l1, once each; l1, when called,
\* registered l2 again with another list, and l2 kept the first place.
C16_Witness ==
  /\ passLog.done /\ passLog.id = 1
  /\ passLog.registry = <<<<"l2", <<1, 1>>>>, <<"l1", <<1>>>>>>
  /\ passLog.invoked = <<"l2", "l1">>
  /\ passLog.changedAt = 2
  /\ listenerIds = <<<<"l2", <<2>>>>, <<"l1", <<1>>>>>>


\* The promise of attempt id has settled and its continuations are due.
Due(id) ==
  /\ id \in DOMAIN attempts
  /\ attempts[id].state # "pending"
  /\ attempts[id].stage = "waiting"

\* Both continuations of attempt id have run; if the entry was the
\* attempt's own when the promise completed, a Ready or Error record with
\* the id has been stored and the pass for the id has just called, to the
\* last, the listeners subscribed when it began.
Finished(id) ==
  /\ id \in DOMAIN attempts
  /\ attempts[id].stage = "done"
  /\ attempts[id].current =>
       /\ Settled(id) # {}
       /\ passes[id] = 1
       /\ passLog.id = id /\ passLog.done
       /\ passLog.invoked = Subscribers(passLog.registry, id)

C18_StaleAnnotates ==
  [][\A id \in Ids :
       (/\ Completes(id)
        /\ attempts[id].state = "rejected"
        /\ attempts[id].value \in NotFoundErrors
        /\ pathname[attempts[id].value] = "undefined")
         => /\ attempts'[id].stage \in {"updated", "stale"}
            /\ pathname'[attempts[id].value] = JoinedPath[attempts[id].env]
            /\ attempts'[id].stage = "stale"
                 => /\ ~IsCurrent(id)
                    /\ UNCHANGED <<results, objects, passes>>]_vars

\* The only attempt that rejected with the unannotated error was stale:
\* no record was stored for it and no pass was run, and the error carries
\* the path of its environment.
C18_Witness ==
  \E id \in DOMAIN attempts :
    /\ attempts[id].value = "NotFoundError#1"
    /\ attempts[id].stage = "done"
    /\ ~attempts[id].current
    /\ Settled(id) = {}
    /\ passes[id] = 0
    /\ pathname["NotFoundError#1"] = JoinedPath[attempts[id].env]
    /\ \A other \in DOMAIN attempts \ {id} :
         attempts[other].value # "NotFoundError#1"


\* C19: whenever a listener is called in the pass for an id, the update for
\* the id has been applied before: a Ready or Error record with the id has
\* been stored, and if the table entry of the pair still has the id, the
\* record the listener finds there is Ready or Error, not Busy.
C19_UpdateBeforeNotify ==
  [][\A l \in Listeners :
       Called(l) =>
         LET id == passLog'.id IN
           /\ attempts[id].stage = "updated"
           /\ Settled(id) # {}
           /\ IsCurrent(id) =>
                objects[Table(attempts[id].env)[attempts[id].resolvable]].status
                  \in {Status.Ready, Status.Error}]_vars

\* l1 has been called in the pass for an id whose entry is in the table,
\* Ready.
C19_Witness ==
  /\ passLog.id # 0
  /\ passLog.invoked = <<"l1">>
  /\ IsCurrent(passLog.id)
  /\ objects[Table(attempts[passLog.id].env)
               [attempts[passLog.id].resolvable]].status = Status.Ready


\* The second continuation of attempt id runs in this step, after an update.
FansOut(id) ==
  /\ id \in DOMAIN attempts
  /\ attempts[id].stage = "updated"
  /\ pass.id = 0
  /\ pass'.id = id \/ attempts'[id].stage = "done"

\* C20: the update for an id and the fan-out for it are two steps: the
\* step that stores the record calls no listener, and the later step that
\* fans out begins a pass over the registry as it is then, whatever it was
\* at the update (a listener registered for the id in between is in the
\* pass, one unregistered in between is not), and it begins that pass
\* also when the table entry has been replaced in between.
C20_FanOutReadsLate ==
  [][\A id \in Ids :
       /\ Completes(id) => /\ pass' = NoPass
                           /\ passes' = passes
                           /\ passLog'.id = 0
       /\ FansOut(id) =>
            /\ passes'[id] = passes[id] + 1
            /\ passLog'.id = id
            /\ passLog'.registry = listenerIds
            /\ passLog'.done <=> Subscribers(listenerIds, id) = <<>>
            /\ ~passLog'.done =>
                 pass'.snapshot[pass'.i][1] = Subscribers(listenerIds, id)[1]]_vars

\* A pass has called l1, which was not subscribed to the id when the
\* record was stored, and the table entry of the pair is no longer the
\* attempt's.
C20_Witness ==
  /\ passLog.done
  /\ passLog.invoked = <<"l1">>
  /\ "l1" \notin passLog.atUpdate
  /\ ~IsCurrent(passLog.id)

=============================================================================
